---- MODULE Spec2Model ----
(***************************************************************************)
(* Firewalla Time Manager CLI (src/firewalla_cli.py).                      *)
(*                                                                         *)
(* One invocation of the CLI is a process that walks through the steps of  *)
(* a command: main -> check_health -> get_policies -> mutation call ->     *)
(* audit-log append -> exit.  Every bridge call and the file append is one *)
(* step.  The bridge (a separate service) holds the policy records; the    *)
(* audit log is the file time_extensions.log.                              *)
(***************************************************************************)
EXTENDS Integers, Sequences, FiniteSets, TLC

VARIABLES
    policyRules,   \* bridge: the policy records it holds (sequence)
    pauseTimers,   \* bridge: pids with a running pause timer
    userTags,      \* bridge: the users it holds, in the order it reports them
    log,           \* time_extensions.log: the lines written so far
    log_exists,    \* whether time_extensions.log exists
    log_writers,   \* per line of the log: the invocation that wrote it
    runs,          \* number of invocations started
    pc,            \* per invocation: position in the command
    argv,          \* per invocation: command, policy_id, minutes, by_user
    policy_rules,  \* per invocation: local `policy_rules` (fetched list)
    policy,        \* per invocation: local `policy` (<<>> is None)
    current_duration, \* per invocation: local `current_duration`
    result,        \* per invocation: local `result` (<<>> before the call)
    exit_code,     \* per invocation: process exit status
    stderr,        \* per invocation: messages written to sys.stderr
    stdout,        \* per invocation: messages written to sys.stdout
    hist           \* per invocation: history of its calls and effects

vars == <<policyRules, pauseTimers, userTags, log, log_exists, log_writers,
          runs, pc, argv,
          policy_rules, policy, current_duration, result, exit_code,
          stderr, stdout, hist>>

bridgeVars == <<policyRules, pauseTimers, userTags>>
fileVars == <<log, log_exists, log_writers>>

----------------------------------------------------------------------------
(* Bounds and input sets *)

MaxRuns == 2
MaxPolicies == 2
MaxUsers == 2
MaxLines == 3
MaxReplays == 3
MaxSeconds == 7300

Procs == {"op1", "op2"}
Operator == {"op1"}

Commands == {"list", "pause", "extend", "grant", "enable", "log"}
PolicyIds == {"p1", "p2", "p9"}
MinutesArgs == {15, -90}
Timestamps == {"t1", "t2"}
ExpiryStamps == {"2024-01-01T10:00:00Z"}

----------------------------------------------------------------------------
(* Python values *)

PyStr(n) == [py |-> "str", v |-> n]
PyInt(x) == x.v

\* dict.get(key, default) on an optional field held as <<>> or <<value>>
Get(field, default) == IF field = <<>> THEN default ELSE field[1]

P1 == [pid |-> "p1", type |-> "mac", tag |-> <<"tag:1">>,
       duration |-> <<PyStr(3600)>>, cronTime |-> <<"0 22 * * *">>,
       disabled |-> "0", hitCount |-> "3"]
P2 == [pid |-> "p2", type |-> "ip", tag |-> <<>>,
       duration |-> <<>>, cronTime |-> <<>>,
       disabled |-> "0", hitCount |-> "0"]

\* Policies and users the bridge may report to a listing
L1 == [pid |-> "l1", type |-> "mac", tag |-> <<"tag:1", "tag:2">>,
       duration |-> <<PyStr(3600)>>, cronTime |-> <<"0 22 * * *">>,
       disabled |-> "0", hitCount |-> "3"]
L2 == [pid |-> "l2", type |-> "intranet", tag |-> <<"tag:2">>,
       duration |-> <<PyStr(5400)>>, cronTime |-> <<"30 7 * * *">>,
       disabled |-> "1", hitCount |-> "0"]
L3 == [pid |-> "l3", type |-> "ip", tag |-> <<"tag:1">>,
       duration |-> <<PyStr(3600)>>, cronTime |-> <<"0 22 * * *">>,
       disabled |-> "0", hitCount |-> "0"]
L4 == [pid |-> "l4", type |-> "mac", tag |-> <<"tag:1">>,
       duration |-> <<>>, cronTime |-> <<"0 22 * * *">>,
       disabled |-> "0", hitCount |-> "0"]
L5 == [pid |-> "l5", type |-> "mac", tag |-> <<"tag:1">>,
       duration |-> <<PyStr(3600)>>, cronTime |-> <<>>,
       disabled |-> "0", hitCount |-> "0"]
L6 == [pid |-> "l6", type |-> "mac", tag |-> <<>>,
       duration |-> <<PyStr(3600)>>, cronTime |-> <<"0 22 * * *">>,
       disabled |-> "0", hitCount |-> "0"]
L7 == [pid |-> "l7", type |-> "mac", tag |-> <<"tag:None">>,
       duration |-> <<PyStr(1800)>>, cronTime |-> <<"noon">>,
       disabled |-> "0", hitCount |-> "1"]

ListCandidates == {L1, L2, L3, L4, L5, L6, L7}

U1 == [uid |-> "u1", name |-> <<"Ann">>, affiliatedTag |-> <<"1">>]
U2 == [uid |-> "u2", name |-> <<"Bob">>, affiliatedTag |-> <<"2">>]
U3 == [uid |-> "u3", name |-> <<"Ann">>, affiliatedTag |-> <<"2">>]
U4 == [uid |-> "u4", name |-> <<"Guest">>, affiliatedTag |-> <<>>]

UserCandidates == {U1, U2, U3, U4}

\* the sequences without repetition of at most n elements of S
InjSeqs(S, n) ==
    {s \in UNION {[1..k -> S] : k \in 0..n} :
        \A i, j \in DOMAIN s : i # j => s[i] # s[j]}

----------------------------------------------------------------------------
(* Pure functions of the CLI *)

\* Mutant: the hour segment is written for zero hours as well
format_duration_always_hours(seconds) ==
    LET hours == seconds \div 3600
        minutes == (seconds % 3600) \div 60
    IN  ToString(hours) \o "h " \o ToString(minutes) \o "m"

format_duration(seconds) ==
    LET hours == seconds \div 3600
        minutes == (seconds % 3600) \div 60
    IN  IF hours > 0
        THEN ToString(hours) \o "h " \o ToString(minutes) \o "m"
        ELSE ToString(minutes) \o "m"

\* cron_str.split() of the cron strings the bridge holds
split(cron_str) ==
    IF cron_str = "0 22 * * *" THEN <<"0", "22", "*", "*", "*">>
    ELSE IF cron_str = "30 7 * * *" THEN <<"30", "7", "*", "*", "*">>
    ELSE IF cron_str = "" THEN <<>>
    ELSE <<cron_str>>

\* str.zfill(2)
zfill2(str) ==
    IF Len(str) = 0 THEN "00" ELSE IF Len(str) = 1 THEN "0" \o str ELSE str

parse_cron_time(cron_str) ==
    LET parts == split(cron_str)
    IN  IF Len(parts) >= 2
        THEN zfill2(parts[2]) \o ":" \o zfill2(parts[1])
        ELSE cron_str

\* Mutant: a record without tags passes the filter
IsTimeBased_untagged(p) ==
    /\ p.type \in {"mac", "intranet"}
    /\ p.duration # <<>>
    /\ p.cronTime # <<>>

IsTimeBased(p) ==
    /\ p.type \in {"mac", "intranet"}
    /\ p.duration # <<>>
    /\ p.cronTime # <<>>
    /\ p.tag # <<>>

time_policies(rules) == SelectSeq(rules, IsTimeBased)

\* f"tag:{affiliated_tag}": None is formatted as the text "None"
TagKey(affiliated_tag) ==
    IF affiliated_tag = <<>> THEN "tag:None" ELSE "tag:" \o affiliated_tag[1]

InSeq(x, seq) == \E i \in DOMAIN seq : seq[i] = x

\* tag_to_users[tag]: the names of the users with a truthy affiliatedTag
\* whose key is `tag`, in the order of user_tags; <<>> when the key is absent
tag_to_users(user_tags, tag) ==
    LET members == SelectSeq(user_tags,
                       LAMBDA user : /\ user.affiliatedTag # <<>>
                                     /\ TagKey(user.affiliatedTag) = tag)
    IN  [i \in DOMAIN members |-> Get(members[i].name, "Unknown")]

\* for tag in tags: if tag in tag_to_users: users_for_policy.extend(...)
RECURSIVE users_for_policy(_, _)
users_for_policy(user_tags, tags) ==
    IF tags = <<>> THEN <<>>
    ELSE tag_to_users(user_tags, Head(tags))
         \o users_for_policy(user_tags, Tail(tags))

\* [p for p in time_policies if tag_key in p.get("tag", [])]
user_policy_list(policies, tag_key) ==
    SelectSeq(policies, LAMBDA p : InSeq(tag_key, p.tag))

\* d[key] = value on a dict held as the sequence of its items: a new key is
\* added at the end, an existing key keeps its place and gets the new value
DictSet(d, key, value) ==
    IF \E i \in DOMAIN d : d[i].key = key
    THEN [i \in DOMAIN d |->
            IF d[i].key = key THEN [key |-> key, value |-> value] ELSE d[i]]
    ELSE Append(d, [key |-> key, value |-> value])

\* the loop over user_tags.items() that fills user_policies
RECURSIVE user_policies(_, _, _)
user_policies(user_tags, policies, acc) ==
    IF user_tags = <<>> THEN acc
    ELSE LET user == Head(user_tags)
             user_name == Get(user.name, "Unknown")
             tag_key == TagKey(user.affiliatedTag)
             matching == user_policy_list(policies, tag_key)
         IN  user_policies(Tail(user_tags), policies,
                 IF matching # <<>>
                 THEN DictSet(acc, user_name,
                          [uid |-> user.uid, tag |-> tag_key,
                           policies |-> matching])
                 ELSE acc)

\* the lines printed for one policy (both modes)
PolicyLines(p) ==
    [policy_id |-> p.pid,
     status |-> IF p.disabled = "1" THEN "DISABLED" ELSE "ACTIVE",
     type |-> p.type,
     action |-> IF "action" \in DOMAIN p THEN p.action ELSE "unknown",
     schedule |-> "Blocks at " \o parse_cron_time(Get(p.cronTime, ""))
                  \o " for " \o format_duration(PyInt(Get(p.duration, PyStr(0)))),
     hit_count |-> p.hitCount]

\* the output of list after the connection line
ListOutput(rules, user_tags, by_user) ==
    LET selected == time_policies(rules)
        groups == user_policies(user_tags, selected, <<>>)
    IN  IF selected = <<>>
        THEN <<[line |-> "No time-based blocking policies found."]>>
        ELSE IF by_user
        THEN <<[line |-> "Found", policies |-> Len(selected),
                users |-> <<Len(groups)>>]>>
             \o [i \in DOMAIN groups |->
                    [line |-> "user", user_name |-> groups[i].key,
                     uid |-> groups[i].value.uid, tag |-> groups[i].value.tag,
                     policies |-> [j \in DOMAIN groups[i].value.policies |->
                                    PolicyLines(groups[i].value.policies[j])]]]
        ELSE <<[line |-> "Found", policies |-> Len(selected), users |-> <<>>]>>
             \o [i \in DOMAIN selected |->
                    [line |-> "policy", policy |-> PolicyLines(selected[i]),
                     users |-> users_for_policy(user_tags, selected[i].tag),
                     tags |-> selected[i].tag]]

\* Mutant: the lookup runs over the time-based policies only
RECURSIVE FindPolicy_time_based(_, _)
FindPolicy_time_based(rules, policy_id) ==
    IF rules = <<>> THEN <<>>
    ELSE IF Head(rules).pid = policy_id /\ IsTimeBased(Head(rules))
         THEN <<Head(rules)>>
    ELSE FindPolicy_time_based(Tail(rules), policy_id)

\* for p in policy_rules: if p.get("pid") == policy_id: policy = p; break
RECURSIVE FindPolicy(_, _)
FindPolicy(rules, policy_id) ==
    IF rules = <<>> THEN <<>>
    ELSE IF Head(rules).pid = policy_id THEN <<Head(rules)>>
    ELSE FindPolicy(Tail(rules), policy_id)

\* Mutant: the status of the health response is not looked at
Connected_unchecked(health) == TRUE

Connected(health) == health = "connected"

\* Mutant: the minutes are added without the conversion to seconds
ExtendNewDuration_minutes(current, additional_minutes) ==
    current + additional_minutes

ExtendNewDuration(current, additional_minutes) ==
    current + additional_minutes * 60

\* Mutant: the change is applied to the record the bridge holds at the time
\* of the push and not to the fetched one
ExtendRecord_on_current(p, additional_minutes) ==
    LET held == FindPolicy(policyRules, p.pid)[1]
        current == PyInt(Get(held.duration, PyStr(0)))
    IN  [held EXCEPT !.duration =
            <<PyStr(ExtendNewDuration(current, additional_minutes))>>]

ExtendRecord(p, additional_minutes) ==
    LET current == PyInt(Get(p.duration, PyStr(0)))
    IN  [p EXCEPT !.duration =
            <<PyStr(ExtendNewDuration(current, additional_minutes))>>]

\* Mutant: the pushed record is rebuilt and loses its tags
DisableRecord_drops_tags(p) == [p EXCEPT !.disabled = "1", !.tag = <<>>]

DisableRecord(p) == [p EXCEPT !.disabled = "1"]

EnableRecord(p) == [p EXCEPT !.disabled = "0"]

ExtensionEntry(ts, policy_id, p, additional_minutes, current, new_duration) ==
    [timestamp |-> ts, policy_id |-> policy_id, tags |-> p.tag,
     extension_minutes |-> additional_minutes,
     old_duration |-> format_duration(current),
     new_duration |-> format_duration(new_duration)]

\* Mutant: the grant entry is written with the action of a pause
GrantEntry_as_pause(ts, policy_id, p, minutes) ==
    [timestamp |-> ts, policy_id |-> policy_id, tags |-> p.tag,
     action |-> "paused", duration_minutes |-> minutes]

GrantEntry(ts, policy_id, p, minutes) ==
    [timestamp |-> ts, policy_id |-> policy_id, tags |-> p.tag,
     action |-> "disabled", duration_minutes |-> minutes]

PauseEntry(ts, policy_id, p, minutes, expires_at) ==
    [timestamp |-> ts, policy_id |-> policy_id, tags |-> p.tag,
     action |-> "paused", duration_minutes |-> minutes,
     expires_at |-> expires_at]

\* json.dumps(log_entry): the text of one JSON object
JsonDumps(entry) == [json |-> entry]

\* Mutant: a blank line is read as an empty object
JsonLoads_blank_ok(line) ==
    IF "json" \in DOMAIN line THEN <<line.json>>
    ELSE IF line.garbage = "" THEN <<<<>>>>
    ELSE <<>>

\* json.loads(line.strip()): <<entry>>, or <<>> when it raises
\* JSONDecodeError (text that is not JSON, a blank line)
JsonLoads(line) ==
    IF "json" \in DOMAIN line THEN <<line.json>> ELSE <<>>

\* Mutant: the file is opened with "w" and truncated
AppendLine_truncate(lines, entry) == <<entry>>

\* open("time_extensions.log", "a"); f.write(line)
AppendLine(lines, entry) == Append(lines, entry)

\* Mutant: only an explicit success=false counts as a failure
PauseSucceeded_unless_false(res) == res.success # <<FALSE>>

\* result.get("success")
PauseSucceeded(res) == Get(res.success, FALSE)

\* except requests.exceptions.RequestException: ... sys.exit(1), one handler
\* per bridge method.  "error": the bridge is unreachable or answers non-2xx;
\* "lost": the request reached the bridge but no usable response came back
\* (read timeout, undecodable body)
GetAllDataRaises(outcome) == outcome \in {"error", "lost"}

GetPoliciesRaises(outcome) == outcome \in {"error", "lost"}

\* Mutant: the exception is swallowed and the command carries on
SendMessageRaises_swallowed(outcome) == FALSE

SendMessageRaises(outcome) == outcome \in {"error", "lost"}

PausePolicyRaises(outcome) == outcome \in {"error", "lost"}

\* policy = p binds the dict inside policy_rules: an assignment to a key of
\* `policy` is seen through the list as well
RECURSIVE Aliased(_, _)
Aliased(rules, rec) ==
    IF rules = <<>> THEN <<>>
    ELSE IF Head(rules).pid = rec.pid THEN <<rec>> \o Tail(rules)
    ELSE <<Head(rules)>> \o Aliased(Tail(rules), rec)

----------------------------------------------------------------------------
(* The bridge service *)

\* POST /api/send {message: "setPolicy", data: record}: the record replaces
\* the held record of the same pid
SetPolicy(rules, rec) ==
    [i \in 1..Len(rules) |-> IF rules[i].pid = rec.pid THEN rec ELSE rules[i]]

\* POST /api/policy/{id}/pause: the policy is disabled until the timer fires
PauseAtBridge(rules, policy_id) ==
    [i \in 1..Len(rules) |->
        IF rules[i].pid = policy_id THEN [rules[i] EXCEPT !.disabled = "1"]
        ELSE rules[i]]

ResumeAtBridge(rules, policy_id) ==
    [i \in 1..Len(rules) |->
        IF rules[i].pid = policy_id THEN [rules[i] EXCEPT !.disabled = "0"]
        ELSE rules[i]]

SendOutcomes == {"ok", "rejected", "error", "lost"}

SendResponse(outcome) ==
    IF outcome = "ok" THEN <<[success |-> <<TRUE>>]>>
    ELSE IF outcome = "rejected" THEN <<[success |-> <<FALSE>>]>>
    ELSE <<>>

BridgeApplies(outcome) == outcome \in {"ok", "lost"}

\* {success: bool, expiresAt?: string}: the expiry comes with a success; a
\* refusal carries success false or no success key at all
PauseResponses ==
    {[success |-> <<TRUE>>, expiresAt |-> <<e>>] : e \in ExpiryStamps}
    \cup {[success |-> <<FALSE>>, expiresAt |-> <<>>],
          [success |-> <<>>, expiresAt |-> <<>>]}

PauseOutcomes ==
    {[net |-> "error", body |-> <<>>], [net |-> "lost", body |-> <<>>]}
    \cup {[net |-> "ok", body |-> <<r>>] : r \in PauseResponses}

----------------------------------------------------------------------------
(* State *)

\* History of one invocation: the bridge calls it made, the health status
\* it saw, the list it fetched, the records it pushed, the outcome of its
\* mutation calls, the lines it appended, whether the bridge changed a
\* policy on its request, and the log and policies as they were at its start
NoHist == [calls |-> <<>>, health |-> <<>>, fetched |-> <<>>, users |-> <<>>,
           sent |-> <<>>,
           outcomes |-> <<>>, appended |-> <<>>, applied |-> FALSE,
           log0 |-> <<>>, rules0 |-> <<>>]

\* sys.argv: argc is len(sys.argv), integer tells whether sys.argv[3] is the
\* text of an integer, minutes is its value
NoArgv == [command |-> "", policy_id |-> "", minutes |-> 0, by_user |-> FALSE,
           argc |-> 1, integer |-> TRUE]

\* before the first invocation: no pause timer runs, no process has started
InitIdle ==
    /\ pauseTimers = {}
    /\ runs = 0
    /\ pc = [p \in Procs |-> "idle"]
    /\ argv = [p \in Procs |-> NoArgv]
    /\ policy_rules = [p \in Procs |-> <<>>]
    /\ policy = [p \in Procs |-> <<>>]
    /\ result = [p \in Procs |-> <<>>]
    /\ exit_code = [p \in Procs |-> 0]
    /\ stderr = [p \in Procs |-> <<>>]
    /\ stdout = [p \in Procs |-> <<>>]
    /\ current_duration = [p \in Procs |-> 0]
    /\ hist = [p \in Procs |-> NoHist]

Init ==
    /\ policyRules = <<P1, P2>>
    /\ userTags = <<U1>>
    /\ log = <<>>
    /\ log_exists = FALSE
    /\ log_writers = <<>>
    /\ InitIdle

Msg(text) == [text |-> text, detail |-> <<>>]

\* sys.exit(code) / return from main
Exit(p, code, msgs) ==
    /\ pc' = [pc EXCEPT ![p] = "done"]
    /\ exit_code' = [exit_code EXCEPT ![p] = code]
    /\ stderr' = [stderr EXCEPT ![p] = stderr[p] \o msgs]

Goto(p, label) ==
    /\ pc' = [pc EXCEPT ![p] = label]
    /\ UNCHANGED <<exit_code, stderr>>

Called(p, name) == [hist EXCEPT ![p].calls = Append(@, name)]

locals == <<policy_rules, policy, current_duration, result>>

----------------------------------------------------------------------------
(* main: argument dispatch *)

\* the command lines with every argument in place
WellFormed ==
    {[command |-> "list", policy_id |-> "", minutes |-> 0, by_user |-> b,
      argc |-> IF b THEN 3 ELSE 2, integer |-> TRUE] : b \in BOOLEAN}
    \cup {[NoArgv EXCEPT !.command = "log", !.argc = 2]}
    \cup {[NoArgv EXCEPT !.command = "enable", !.policy_id = id, !.argc = 3] :
            id \in PolicyIds}
    \cup {[NoArgv EXCEPT !.command = c, !.policy_id = id, !.minutes = m,
                         !.argc = 4] :
            c \in {"pause", "extend", "grant"}, id \in PolicyIds,
            m \in MinutesArgs}

\* no command, an unknown command, arguments left out, minutes not a number
IllFormed ==
    {NoArgv, [NoArgv EXCEPT !.command = "status", !.argc = 2]}
    \cup {[NoArgv EXCEPT !.command = c, !.argc = 2] : c \in {"pause", "enable"}}
    \cup {[NoArgv EXCEPT !.command = c, !.policy_id = "p1", !.argc = 3] :
            c \in {"extend", "grant"}}
    \cup {[NoArgv EXCEPT !.command = c, !.policy_id = "p1", !.argc = 4,
                         !.integer = FALSE] :
            c \in {"pause", "extend", "grant"}}

CommandLines == WellFormed \cup IllFormed

\* how main ends before it reaches a command, "" when it reaches it
MainFault(a) ==
    IF a.argc < 2 THEN "no_command"
    ELSE IF a.command \in {"pause", "extend", "grant"}
    THEN IF a.argc < 4 THEN "usage"
         ELSE IF ~a.integer THEN "ValueError"
         ELSE ""
    ELSE IF a.command = "enable"
    THEN IF a.argc < 3 THEN "usage" ELSE ""
    ELSE IF a.command \in {"list", "log"} THEN ""
    ELSE "unknown"

\* print(..., file=sys.stderr) of main, and the traceback of an uncaught
\* exception
MainStderr(a) ==
    IF MainFault(a) = "usage" THEN <<Msg("Usage: " \o a.command)>>
    ELSE IF MainFault(a) = "unknown" THEN <<Msg("Unknown command: " \o a.command)>>
    ELSE IF MainFault(a) = "ValueError"
    THEN <<Msg("ValueError: invalid literal for int() with base 10")>>
    ELSE <<>>

\* print(...) of main
MainStdout(a) ==
    IF MainFault(a) = "no_command"
    THEN <<"Firewalla Time Manager", "Usage:">>
    ELSE <<>>

\* one run of the program, the limit-th at most
Start(p, limit) ==
    /\ pc[p] \in {"idle", "done"}
    /\ runs < limit
    /\ runs' = runs + 1
    /\ \E a \in CommandLines :
        /\ argv' = [argv EXCEPT ![p] = a]
        /\ pc' = [pc EXCEPT ![p] =
                IF MainFault(a) # "" THEN "done"
                ELSE IF a.command = "log" THEN "show_log" ELSE "check_health"]
        /\ exit_code' = [exit_code EXCEPT ![p] =
                IF MainFault(a) # "" THEN 1 ELSE 0]
        /\ stderr' = [stderr EXCEPT ![p] = MainStderr(a)]
        /\ stdout' = [stdout EXCEPT ![p] = MainStdout(a)]
    /\ policy_rules' = [policy_rules EXCEPT ![p] = <<>>]
    /\ policy' = [policy EXCEPT ![p] = <<>>]
    /\ current_duration' = [current_duration EXCEPT ![p] = 0]
    /\ result' = [result EXCEPT ![p] = <<>>]
    /\ hist' = [hist EXCEPT ![p] =
            [NoHist EXCEPT !.log0 = log, !.rules0 = policyRules]]
    /\ UNCHANGED <<bridgeVars, fileVars>>

Main(p) == Start(p, MaxRuns)

----------------------------------------------------------------------------
(* Shared preflight: health check, then the fetch and the lookup *)

HealthOutcomes == {"error", "connected", "starting"}

CheckHealth(p) ==
    /\ pc[p] = "check_health"
    /\ \E health \in HealthOutcomes :
      /\ hist' = [hist EXCEPT ![p].calls = Append(@, "health"),
                              ![p].health = Append(@, health)]
      /\ IF health = "error"
         THEN Exit(p, 1, <<Msg("Error connecting to bridge server")>>)
         ELSE IF ~Connected(health)
         THEN Exit(p, 1, <<Msg("Bridge not connected to Firewalla")>>)
         ELSE Goto(p, IF argv[p].command = "list" THEN "get_all_data"
                      ELSE "get_policies")
    /\ stdout' = [stdout EXCEPT ![p] =
            IF pc'[p] = "get_all_data" THEN Append(@, "Connected to Firewalla")
            ELSE @]
    /\ UNCHANGED <<bridgeVars, fileVars, runs, argv, locals>>

ListPolicies(p) ==
    /\ pc[p] = "get_all_data"
    /\ \E outcome \in {"ok", "error"} :
        IF GetAllDataRaises(outcome)
        THEN /\ hist' = Called(p, "init")
             /\ Exit(p, 1, <<Msg("Error fetching data")>>)
             /\ UNCHANGED <<policy_rules, stdout>>
        ELSE /\ hist' = [hist EXCEPT ![p].calls = Append(@, "init"),
                                     ![p].fetched = <<policyRules>>,
                                     ![p].users = <<userTags>>]
             /\ policy_rules' = [policy_rules EXCEPT ![p] = policyRules]
             /\ stdout' = [stdout EXCEPT ![p] =
                    @ \o ListOutput(policyRules, userTags, argv[p].by_user)]
             /\ pc' = [pc EXCEPT ![p] = "done"]
             /\ UNCHANGED <<exit_code, stderr>>
    /\ UNCHANGED <<bridgeVars, fileVars, runs, argv, policy, current_duration,
                   result>>

GetPolicies(p) ==
    /\ pc[p] = "get_policies"
    /\ \E outcome \in {"ok", "error"} :
        IF GetPoliciesRaises(outcome)
        THEN /\ hist' = Called(p, "screentime")
             /\ Exit(p, 1, <<Msg("Error fetching policies")>>)
             /\ UNCHANGED <<policy_rules, policy>>
        ELSE LET found == FindPolicy(policyRules, argv[p].policy_id)
             IN  /\ hist' = [hist EXCEPT ![p].calls = Append(@, "screentime"),
                                         ![p].fetched = <<policyRules>>]
                 /\ policy_rules' = [policy_rules EXCEPT ![p] = policyRules]
                 /\ policy' = [policy EXCEPT ![p] = found]
                 /\ IF found = <<>>
                    THEN Exit(p, 1, <<Msg("Policy not found")>>)
                    ELSE Goto(p, argv[p].command)
    /\ UNCHANGED <<bridgeVars, fileVars, runs, argv, current_duration, result,
                   stdout>>

----------------------------------------------------------------------------
(* Mutation calls *)

\* bridge.send_message("setPolicy", rec) as seen by the caller and the bridge
SendMessage(p, rec, next) ==
    \E outcome \in SendOutcomes :
        /\ hist' = [hist EXCEPT ![p].calls = Append(@, "setPolicy"),
                                ![p].sent = Append(@, rec),
                                ![p].outcomes = Append(@, outcome),
                                ![p].applied = @ \/ BridgeApplies(outcome)]
        /\ policyRules' = IF BridgeApplies(outcome)
                          THEN SetPolicy(policyRules, rec) ELSE policyRules
        /\ IF SendMessageRaises(outcome)
           THEN /\ Exit(p, 1, <<Msg("Error sending message")>>)
                /\ UNCHANGED result
           ELSE /\ result' = [result EXCEPT ![p] = SendResponse(outcome)]
                /\ next

ExtendTime(p) ==
    /\ pc[p] = "extend"
    /\ LET rec == ExtendRecord(policy[p][1], argv[p].minutes)
       IN  /\ current_duration' = [current_duration EXCEPT ![p] =
                    PyInt(Get(policy[p][1].duration, PyStr(0)))]
           /\ policy' = [policy EXCEPT ![p] = <<rec>>]
           /\ policy_rules' = [policy_rules EXCEPT ![p] = Aliased(@, rec)]
           /\ SendMessage(p, rec, Goto(p, "log_extend"))
    /\ stdout' = [stdout EXCEPT ![p] =
            IF pc'[p] = "log_extend" THEN Append(@, "Successfully extended time")
            ELSE @]
    /\ UNCHANGED <<pauseTimers, userTags, fileVars, runs, argv>>

DisablePolicy(p) ==
    /\ pc[p] = "grant"
    /\ LET rec == DisableRecord(policy[p][1])
       IN  /\ policy' = [policy EXCEPT ![p] = <<rec>>]
           /\ policy_rules' = [policy_rules EXCEPT ![p] = Aliased(@, rec)]
           /\ SendMessage(p, rec, Goto(p, "log_grant"))
    /\ stdout' = [stdout EXCEPT ![p] =
            IF pc'[p] = "log_grant" THEN Append(@, "Successfully disabled policy")
            ELSE @]
    /\ UNCHANGED <<pauseTimers, userTags, fileVars, runs, argv, current_duration>>

EnablePolicy(p) ==
    /\ pc[p] = "enable"
    /\ LET rec == EnableRecord(policy[p][1])
       IN  /\ policy' = [policy EXCEPT ![p] = <<rec>>]
           /\ policy_rules' = [policy_rules EXCEPT ![p] = Aliased(@, rec)]
           /\ SendMessage(p, rec, Goto(p, "done"))
    /\ stdout' = [stdout EXCEPT ![p] =
            IF exit_code'[p] = 0 THEN Append(@, "Successfully enabled policy")
            ELSE @]
    /\ UNCHANGED <<pauseTimers, userTags, fileVars, runs, argv, current_duration>>

PausePolicy(p) ==
    /\ pc[p] = "pause"
    /\ \E outcome \in PauseOutcomes :
        LET paused == /\ BridgeApplies(outcome.net)
                      /\ outcome.body # <<>> => outcome.body[1].success = <<TRUE>>
        IN  /\ hist' = [hist EXCEPT ![p].calls = Append(@, "pause"),
                                    ![p].outcomes = Append(@, outcome.net),
                                    ![p].applied = @ \/ paused]
            /\ policyRules' = IF paused
                              THEN PauseAtBridge(policyRules, argv[p].policy_id)
                              ELSE policyRules
            /\ pauseTimers' = IF paused
                              THEN pauseTimers \cup {argv[p].policy_id}
                              ELSE pauseTimers
            /\ IF PausePolicyRaises(outcome.net)
               THEN /\ Exit(p, 1, <<Msg("Error pausing policy")>>)
                    /\ UNCHANGED result
               ELSE /\ result' = [result EXCEPT ![p] = outcome.body]
                    /\ IF PauseSucceeded(outcome.body[1])
                       THEN Goto(p, "log_pause")
                       ELSE Exit(p, 1, <<[text |-> "Failed to pause policy",
                                          detail |-> outcome.body]>>)
    /\ stdout' = [stdout EXCEPT ![p] =
            IF pc'[p] = "log_pause" THEN Append(@, "Successfully paused policy")
            ELSE @]
    /\ UNCHANGED <<userTags, fileVars, runs, argv, policy_rules, policy,
                   current_duration>>

----------------------------------------------------------------------------
(* Audit log *)

WriteLog(p, entry, note) ==
    /\ log' = AppendLine(log, JsonDumps(entry))
    /\ log_exists' = TRUE
    /\ log_writers' = Append(log_writers,
            [command |-> argv[p].command, policy_id |-> argv[p].policy_id,
             minutes |-> argv[p].minutes, tag |-> policy[p][1].tag,
             current_duration |-> current_duration[p], result |-> result[p]])
    /\ hist' = [hist EXCEPT ![p].appended = Append(@, entry)]
    /\ stdout' = [stdout EXCEPT ![p] = Append(@, note)]
    /\ pc' = [pc EXCEPT ![p] = "done"]
    /\ UNCHANGED <<bridgeVars, runs, argv, locals, exit_code, stderr>>

LogExtension(p) ==
    /\ pc[p] = "log_extend"
    /\ \E ts \in Timestamps :
        WriteLog(p, ExtensionEntry(ts, argv[p].policy_id, policy[p][1],
                                   argv[p].minutes, current_duration[p],
                                   PyInt(policy[p][1].duration[1])),
                 "Extension logged to time_extensions.log")

LogGrant(p) ==
    /\ pc[p] = "log_grant"
    /\ \E ts \in Timestamps :
        WriteLog(p, GrantEntry(ts, argv[p].policy_id, policy[p][1], argv[p].minutes),
                 "Grant logged to time_extensions.log")

LogPause(p) ==
    /\ pc[p] = "log_pause"
    /\ \E ts \in Timestamps :
        WriteLog(p, PauseEntry(ts, argv[p].policy_id, policy[p][1], argv[p].minutes,
                               Get(result[p][1].expiresAt, "")),
                 "Pause logged to time_extensions.log")

\* entry.get(key, default)
EntryGet(entry, key, default) ==
    IF key \in DOMAIN entry THEN entry[key] ELSE default

\* Mutant: the branch of the "disabled" entries is missing
RenderEntry_no_disabled(entry) ==
    LET timestamp == EntryGet(entry, "timestamp", "unknown")
        policy_id == EntryGet(entry, "policy_id", "unknown")
        tags == EntryGet(entry, "tags", <<>>)
    IN  IF EntryGet(entry, "action", "None") = "paused"
        THEN <<timestamp, "Paused policy", policy_id, tags,
               EntryGet(entry, "duration_minutes", "unknown"),
               EntryGet(entry, "expires_at", "unknown")>>
        ELSE <<timestamp, "Extended policy", policy_id, tags,
               EntryGet(entry, "extension_minutes", "unknown"),
               EntryGet(entry, "old_duration", "unknown"),
               EntryGet(entry, "new_duration", "unknown")>>

\* the line printed for one entry of the log
RenderEntry(entry) ==
    LET timestamp == EntryGet(entry, "timestamp", "unknown")
        policy_id == EntryGet(entry, "policy_id", "unknown")
        tags == EntryGet(entry, "tags", <<>>)
        action == EntryGet(entry, "action", "None")
    IN  IF action = "paused"
        THEN <<timestamp, "Paused policy", policy_id, tags,
               EntryGet(entry, "duration_minutes", "unknown"),
               EntryGet(entry, "expires_at", "unknown")>>
        ELSE IF action = "disabled"
        THEN <<timestamp, "Disabled policy", policy_id, tags,
               EntryGet(entry, "duration_minutes", "unknown")>>
        ELSE <<timestamp, "Extended policy", policy_id, tags,
               EntryGet(entry, "extension_minutes", "unknown"),
               EntryGet(entry, "old_duration", "unknown"),
               EntryGet(entry, "new_duration", "unknown")>>

\* the lines printed by the loop over the file, up to the first line that
\* json.loads refuses
RECURSIVE PrintedLines(_)
PrintedLines(lines) ==
    IF lines = <<>> THEN <<>>
    ELSE IF JsonLoads(Head(lines)) = <<>> THEN <<>>
    ELSE <<RenderEntry(JsonLoads(Head(lines))[1])>> \o PrintedLines(Tail(lines))

\* json.loads raises on some line: only FileNotFoundError is caught
LoopRaises(lines) == \E i \in DOMAIN lines : JsonLoads(lines[i]) = <<>>

ShowLog(p) ==
    /\ pc[p] = "show_log"
    /\ stdout' = [stdout EXCEPT ![p] =
            IF ~log_exists
            THEN <<"No log file found. No extensions have been granted yet.">>
            ELSE <<"Time Extension Log:">> \o PrintedLines(log)]
    /\ IF log_exists /\ LoopRaises(log)
       THEN Exit(p, 1, <<Msg("json.decoder.JSONDecodeError")>>)
       ELSE Goto(p, "done")
    /\ UNCHANGED <<bridgeVars, fileVars, runs, argv, locals, hist>>

----------------------------------------------------------------------------
(* Bridge: the pause timer of a policy fires and the policy is re-enabled *)

BridgeExpire ==
    /\ \E policy_id \in pauseTimers :
        /\ policyRules' = ResumeAtBridge(policyRules, policy_id)
        /\ pauseTimers' = pauseTimers \ {policy_id}
    /\ UNCHANGED <<userTags, fileVars, runs, pc, argv, locals, exit_code, stderr,
                   stdout, hist>>

----------------------------------------------------------------------------

Step(p) ==
    \/ Main(p)
    \/ CheckHealth(p)
    \/ ListPolicies(p)
    \/ GetPolicies(p)
    \/ ExtendTime(p)
    \/ DisablePolicy(p)
    \/ EnablePolicy(p)
    \/ PausePolicy(p)
    \/ LogExtension(p)
    \/ LogGrant(p)
    \/ LogPause(p)
    \/ ShowLog(p)

Next ==
    \/ \E p \in Operator : Step(p)
    \/ BridgeExpire

Spec == Init /\ [][Next]_vars

----------------------------------------------------------------------------
(* Two operators, one invocation each, on the same policy at the same time *)

MainConcurrent(p) ==
    /\ pc[p] = "idle"
    /\ Main(p)
    /\ argv'[p] \in WellFormed
    /\ argv'[p].command \in {"extend", "grant", "enable"}
    /\ argv'[p].policy_id = "p1"

NextConcurrent ==
    \E p \in Procs :
        \/ MainConcurrent(p)
        \/ CheckHealth(p)
        \/ GetPolicies(p)
        \/ ExtendTime(p)
        \/ DisablePolicy(p)
        \/ EnablePolicy(p)
        \/ LogExtension(p)
        \/ LogGrant(p)

SpecConcurrent == Init /\ [][NextConcurrent]_vars

----------------------------------------------------------------------------
(* list over every small set of policies and users the bridge may hold *)

InitList ==
    /\ policyRules \in InjSeqs(ListCandidates, MaxPolicies)
    /\ userTags \in InjSeqs(UserCandidates, MaxUsers)
    /\ log = <<>>
    /\ log_exists = FALSE
    /\ log_writers = <<>>
    /\ InitIdle

MainList(p) ==
    /\ pc[p] = "idle"
    /\ Main(p)
    /\ argv'[p].command = "list"

NextList ==
    \E p \in Operator :
        \/ MainList(p)
        \/ CheckHealth(p)
        \/ ListPolicies(p)

SpecList == InitList /\ [][NextList]_vars

----------------------------------------------------------------------------
(* log over every small content of time_extensions.log *)

\* lines the file may hold: one entry of each kind as the tool writes them,
\* a line that is not JSON and a blank line
LogLines ==
    {JsonDumps(ExtensionEntry("t1", "p1", P1, 15, 3600, 4500)),
     JsonDumps(GrantEntry("t1", "p1", P1, 15)),
     JsonDumps(PauseEntry("t2", "p1", P1, 15, "2024-01-01T10:00:00Z")),
     [garbage |-> "{not json"],
     [garbage |-> ""]}

InitLog ==
    /\ policyRules = <<P1, P2>>
    /\ userTags = <<U1>>
    /\ log_exists \in BOOLEAN
    /\ log \in UNION {[1..n -> LogLines] : n \in 0..MaxLines}
    /\ ~log_exists => log = <<>>
    /\ log_writers = <<>>
    /\ InitIdle

MainLog(p) ==
    /\ Start(p, MaxRuns)
    /\ argv'[p].command = "log"

NextLog ==
    \E p \in Operator :
        \/ MainLog(p)
        \/ ShowLog(p)

SpecLog == InitLog /\ [][NextLog]_vars

----------------------------------------------------------------------------
(* Writing the audit log and reading it back: extend, grant and pause of one
   policy followed by log *)

MainReplay(p) ==
    /\ Start(p, MaxReplays)
    /\ argv'[p] \in WellFormed
    /\ argv'[p].command \in {"extend", "grant", "pause", "log"}
    /\ argv'[p].policy_id \in {"", "p1"}
    /\ argv'[p].minutes \in {0, 15}

NextReplay ==
    \/ \E p \in Operator :
        \/ MainReplay(p)
        \/ CheckHealth(p)
        \/ GetPolicies(p)
        \/ ExtendTime(p)
        \/ DisablePolicy(p)
        \/ PausePolicy(p)
        \/ LogExtension(p)
        \/ LogGrant(p)
        \/ LogPause(p)
        \/ ShowLog(p)
    \/ BridgeExpire

SpecReplay == Init /\ [][NextReplay]_vars

----------------------------------------------------------------------------
(* list of one policy, over every duration of 0..MaxSeconds seconds *)

InitFormat ==
    /\ \E seconds \in 0..MaxSeconds :
        policyRules = <<[P1 EXCEPT !.duration = <<PyStr(seconds)>>]>>
    /\ userTags = <<U1>>
    /\ log = <<>>
    /\ log_exists = FALSE
    /\ log_writers = <<>>
    /\ InitIdle

SpecFormat == InitFormat /\ [][NextList]_vars

----------------------------------------------------------------------------
(* One operator, no pause: list, log, extend, grant and enable one after the
   other, and nothing else changes the bridge *)

MainManual(p) ==
    /\ Main(p)
    /\ argv'[p] \in WellFormed
    /\ argv'[p].command # "pause"

NextManual ==
    \E p \in Operator :
        \/ MainManual(p)
        \/ CheckHealth(p)
        \/ ListPolicies(p)
        \/ GetPolicies(p)
        \/ ExtendTime(p)
        \/ DisablePolicy(p)
        \/ EnablePolicy(p)
        \/ LogExtension(p)
        \/ LogGrant(p)
        \/ ShowLog(p)

SpecManual == Init /\ [][NextManual]_vars

----------------------------------------------------------------------------
(* Properties *)

MutationCommands == {"extend", "grant", "enable", "pause"}
MutationCalls == {"setPolicy", "pause"}

Done(p) == pc[p] = "done"
Succeeded(p) == Done(p) /\ exit_code[p] = 0
Failed(p) == Done(p) /\ exit_code[p] # 0

NumCalls(p, names) ==
    Cardinality({i \in DOMAIN hist[p].calls : hist[p].calls[i] \in names})

\* the record of the target as it was fetched by the invocation
Fetched(p) == FindPolicy(hist[p].fetched[1], argv[p].policy_id)[1]

FetchedDuration(p) == PyInt(Get(Fetched(p).duration, PyStr(0)))

\* C1: in every mutation command, when the mutation call fails (the bridge
\* call raises) after health check and fetch succeeded, the invocation exits
\* non-zero, the audit log is as it was at the start of the invocation, and
\* the mutation call was issued exactly once; no invocation ever issues a
\* second mutation call.
C1_MutationFailureIsFatal ==
    \A p \in Procs :
        /\ Len(hist[p].outcomes) <= 1
        /\ NumCalls(p, MutationCalls) = Len(hist[p].outcomes)
        /\ (/\ argv[p].command \in MutationCommands
            /\ hist[p].outcomes # <<>>
            /\ hist[p].outcomes[1] \in {"error", "lost"})
           => /\ Failed(p)
              /\ hist[p].appended = <<>>
              /\ log = hist[p].log0
              /\ NumCalls(p, MutationCalls) = 1

C1_Witness ==
    \E p \in Procs :
        /\ Done(p)
        /\ argv[p].command = "extend"
        /\ hist[p].calls = <<"health", "screentime", "setPolicy">>
        /\ hist[p].outcomes = <<"error">>
        /\ log # <<>>

\* C2: in every mutation command, when the bridge answers the mutation call
\* with a result that does not report success, the invocation exits non-zero,
\* reports the raw response on the error stream and appends no audit entry.
C2_RejectionIsFatal ==
    \A p \in Procs :
        (/\ Done(p)
         /\ argv[p].command \in MutationCommands
         /\ result[p] # <<>>
         /\ result[p][1].success # <<TRUE>>)
        => /\ exit_code[p] # 0
           /\ \E i \in DOMAIN stderr[p] : stderr[p][i].detail = result[p]
           /\ hist[p].appended = <<>>

\* C3: pause on a found policy: when the pause response has success false or
\* absent the invocation exits non-zero and the log is unchanged; when
\* success is true the invocation exits zero and has appended exactly one
\* entry with action "paused", the given minutes and the expiresAt string
\* the bridge reported.
C3_PauseFollowsSuccessFlag ==
    \A p \in Procs :
        (Done(p) /\ argv[p].command = "pause" /\ result[p] # <<>>)
        => IF result[p][1].success = <<TRUE>>
           THEN /\ exit_code[p] = 0
                /\ Len(hist[p].appended) = 1
                /\ log = Append(hist[p].log0, JsonDumps(hist[p].appended[1]))
                /\ hist[p].appended[1].action = "paused"
                /\ hist[p].appended[1].policy_id = argv[p].policy_id
                /\ hist[p].appended[1].duration_minutes = argv[p].minutes
                /\ result[p][1].expiresAt # <<>> =>
                     hist[p].appended[1].expires_at = result[p][1].expiresAt[1]
           ELSE /\ exit_code[p] # 0
                /\ hist[p].appended = <<>>
                /\ log = hist[p].log0

C3_Witness ==
    \E p \in Procs :
        /\ Done(p)
        /\ argv[p].command = "pause"
        /\ result[p] = <<[success |-> <<TRUE>>,
                          expiresAt |-> <<"2024-01-01T10:00:00Z">>]>>
        /\ Len(hist[p].appended) = 1
        /\ hist[p].appended[1].expires_at = "2024-01-01T10:00:00Z"

\* C4: every record pushed to the bridge equals the record fetched in the
\* same invocation except for the targeted field: extend rewrites only
\* duration, grant and enable rewrite only disabled, pid, type and tag are
\* never changed, and list, log and pause push nothing.
C4_PushChangesOnlyTargetField ==
    \A p \in Procs :
        /\ argv[p].command \notin {"extend", "grant", "enable"}
           => hist[p].sent = <<>>
        /\ \A i \in DOMAIN hist[p].sent :
            LET rec == hist[p].sent[i]
            IN  /\ rec.pid = Fetched(p).pid
                /\ rec.type = Fetched(p).type
                /\ rec.tag = Fetched(p).tag
                /\ argv[p].command = "extend"
                   => rec = [Fetched(p) EXCEPT !.duration = rec.duration]
                /\ argv[p].command \in {"grant", "enable"}
                   => rec = [Fetched(p) EXCEPT !.disabled = rec.disabled]

C4_Witness ==
    \E p \in Procs :
        /\ argv[p].command = "grant"
        /\ Len(hist[p].sent) = 1
        /\ hist[p].sent[1].tag # <<>>
        /\ hist[p].sent[1] # Fetched(p)

\* C5: a successful grant has pushed the record with disabled "1" and has
\* appended exactly one entry with action "disabled" and the given minutes;
\* a successful enable has pushed the record with disabled "0" and has left
\* the audit log unchanged.
C5_GrantLogsEnableDoesNot ==
    \A p \in Procs :
        /\ (Succeeded(p) /\ argv[p].command = "grant")
           => /\ Len(hist[p].sent) = 1
              /\ hist[p].sent[1].disabled = "1"
              /\ Len(hist[p].appended) = 1
              /\ log = Append(hist[p].log0, JsonDumps(hist[p].appended[1]))
              /\ "action" \in DOMAIN hist[p].appended[1]
              /\ hist[p].appended[1].action = "disabled"
              /\ hist[p].appended[1].policy_id = argv[p].policy_id
              /\ hist[p].appended[1].duration_minutes = argv[p].minutes
        /\ (Succeeded(p) /\ argv[p].command = "enable")
           => /\ Len(hist[p].sent) = 1
              /\ hist[p].sent[1].disabled = "0"
              /\ hist[p].appended = <<>>
              /\ log = hist[p].log0

C5_Witness ==
    \E p \in Procs :
        /\ Succeeded(p)
        /\ argv[p].command = "grant"
        /\ Fetched(p).disabled = "0"
        /\ Len(hist[p].appended) = 1

\* C6: a successful extend on a policy fetched with duration d has pushed the
\* record with duration d + minutes*60 and has appended exactly one entry
\* with extension_minutes = minutes, old_duration = format_duration(d) and
\* new_duration = format_duration(d + minutes*60); for d = 3600 and
\* minutes = 15 these are 4500, "1h 0m" and "1h 15m".
C6_ExtendAddsMinutes ==
    \A p \in Procs :
        (Succeeded(p) /\ argv[p].command = "extend")
        => LET d == FetchedDuration(p)
               m == argv[p].minutes
           IN  /\ Len(hist[p].sent) = 1
               /\ hist[p].sent[1].duration = <<PyStr(d + m * 60)>>
               /\ Len(hist[p].appended) = 1
               /\ log = Append(hist[p].log0, JsonDumps(hist[p].appended[1]))
               /\ "action" \notin DOMAIN hist[p].appended[1]
               /\ hist[p].appended[1].policy_id = argv[p].policy_id
               /\ hist[p].appended[1].extension_minutes = m
               /\ hist[p].appended[1].old_duration = format_duration(d)
               /\ hist[p].appended[1].new_duration = format_duration(d + m * 60)
               /\ (d = 3600 /\ m = 15)
                  => /\ hist[p].sent[1].duration[1].v = 4500
                     /\ hist[p].appended[1].old_duration = "1h 0m"
                     /\ hist[p].appended[1].new_duration = "1h 15m"

C6_Witness ==
    \E p \in Procs :
        /\ Succeeded(p)
        /\ argv[p].command = "extend"
        /\ FetchedDuration(p) = 3600
        /\ argv[p].minutes = 15
        /\ hist[p].appended # <<>>

\* C7: in list, extend, grant, enable and pause the health check is the
\* first bridge call; when it does not report "connected" the invocation
\* exits non-zero having made no other bridge call (no fetch, no mutation
\* call) and no append to the audit log.
C7_HealthCheckFirst ==
    \A p \in Procs :
        /\ hist[p].calls # <<>> => hist[p].calls[1] = "health"
        /\ (hist[p].health # <<>> /\ hist[p].health[1] # "connected")
           => /\ Failed(p)
              /\ hist[p].calls = <<"health">>
              /\ hist[p].fetched = <<>>
              /\ hist[p].sent = <<>>
              /\ hist[p].appended = <<>>
              /\ log = hist[p].log0

C7_Witness ==
    \E p \in Procs :
        /\ Failed(p)
        /\ argv[p].command = "pause"
        /\ hist[p].health = <<"starting">>
        /\ log # <<>>

\* C8: in extend, grant, enable and pause, after a successful fetch the
\* command goes on to the mutation call exactly when some record of the
\* fetched list has the target id, time-based or not; otherwise it exits
\* non-zero with no mutation call and no audit entry.
C8_LookupOverUnfilteredList ==
    \A p \in Procs :
        (argv[p].command \in MutationCommands /\ hist[p].fetched # <<>>)
        => LET present == \E i \in DOMAIN hist[p].fetched[1] :
                              hist[p].fetched[1][i].pid = argv[p].policy_id
           IN  /\ present
                  => /\ pc[p] \in {argv[p].command, "done",
                                   "log_extend", "log_grant", "log_pause"}
                     /\ pc[p] # argv[p].command
                        => NumCalls(p, MutationCalls) = 1
               /\ ~present
                  => /\ Failed(p)
                     /\ NumCalls(p, MutationCalls) = 0
                     /\ hist[p].appended = <<>>
                     /\ log = hist[p].log0

C8_Witness ==
    \E p \in Procs :
        /\ Succeeded(p)
        /\ argv[p].command = "extend"
        /\ ~IsTimeBased(Fetched(p))
        /\ NumCalls(p, MutationCalls) = 1
        /\ hist[p].appended # <<>>

\* C9: an invocation that exits non-zero has neither changed a policy held
\* by the bridge nor appended an audit entry.
C9_FatalHasNoSideEffect ==
    \A p \in Procs :
        Failed(p) => /\ ~hist[p].applied
                     /\ hist[p].appended = <<>>

\* C10: the audit log is append-only: at every point of an invocation the
\* log is the log at its start followed by the lines it appended; a
\* successful extend, grant or pause has appended exactly one line, and
\* list, enable, log and every failed invocation have appended none.
C10_LogAppendOnly ==
    \A p \in Operator :
        pc[p] # "idle"
        => /\ log = hist[p].log0 \o [i \in DOMAIN hist[p].appended |->
                                       JsonDumps(hist[p].appended[i])]
           /\ Done(p)
              => Len(hist[p].appended) =
                    IF exit_code[p] = 0
                       /\ argv[p].command \in {"extend", "grant", "pause"}
                    THEN 1 ELSE 0

C10_Witness ==
    \E p \in Operator :
        /\ Succeeded(p)
        /\ Len(hist[p].appended) = 1
        /\ Len(log) = 2
        /\ log[1] = log[2]

RECURSIVE SumAppended(_)
SumAppended(ps) ==
    IF ps = {} THEN 0
    ELSE LET p == CHOOSE q \in ps : TRUE
         IN  Len(hist[p].appended) + SumAppended(ps \ {p})

HeldDuration(policy_id) ==
    PyInt(Get(FindPolicy(policyRules, policy_id)[1].duration, PyStr(0)))

\* C11: extend, grant and enable are blind read-modify-write overwrites: the
\* record an invocation pushes is the record it fetched with its own field
\* changed, whatever the bridge holds at the time of the push, so the fields
\* it did not target carry their fetched (possibly stale) values; the audit
\* log holds exactly the lines appended by the invocations, one per
\* successful extend or grant.  (The lost update itself is C11_Witness.)
C11_BlindOverwrite ==
    /\ \A p \in Procs :
        /\ \A i \in DOMAIN hist[p].sent :
            LET rec == hist[p].sent[i]
            IN  /\ argv[p].command = "extend"
                   => rec = [Fetched(p) EXCEPT !.duration =
                        <<PyStr(FetchedDuration(p) + argv[p].minutes * 60)>>]
                /\ argv[p].command = "grant"
                   => rec = [Fetched(p) EXCEPT !.disabled = "1"]
                /\ argv[p].command = "enable"
                   => rec = [Fetched(p) EXCEPT !.disabled = "0"]
        /\ Succeeded(p)
           => Len(hist[p].appended) =
                IF argv[p].command \in {"extend", "grant"} THEN 1 ELSE 0
        /\ \A i \in DOMAIN hist[p].appended :
            \E j \in DOMAIN log : log[j] = JsonDumps(hist[p].appended[i])
    /\ Len(log) = SumAppended(Procs)

\* two extends of the same policy both succeed and are both logged, and the
\* bridge holds the duration of one of them only
C11_Witness ==
    \E p, q \in Procs :
        /\ p # q
        /\ Succeeded(p) /\ Succeeded(q)
        /\ argv[p].command = "extend" /\ argv[q].command = "extend"
        /\ hist[p].outcomes = <<"ok">> /\ hist[q].outcomes = <<"ok">>
        /\ FetchedDuration(p) = 3600 /\ FetchedDuration(q) = 3600
        /\ argv[p].minutes = 15 /\ argv[q].minutes = -90
        /\ HeldDuration("p1") = 3600 + 15 * 60
        /\ HeldDuration("p1") # 3600 + (15 - 90) * 60
        /\ Len(log) = 2

\* C12: every record pushed to the bridge has a duration >= 0.
C12_DurationNonNegative ==
    \A p \in Procs :
        \A i \in DOMAIN hist[p].sent :
            PyInt(Get(hist[p].sent[i].duration, PyStr(0))) >= 0

\* a list invocation that printed its listing
Listed(p) ==
    /\ Succeeded(p)
    /\ argv[p].command = "list"
    /\ hist[p].fetched # <<>>

\* what list printed after the connection line
Listing(p) == SubSeq(stdout[p], 2, Len(stdout[p]))

Groups(p) == SelectSeq(Listing(p), LAMBDA l : l.line = "user")

Shown(p) == SelectSeq(Listing(p), LAMBDA l : l.line = "policy")

\* the selected policies of the fetched list that carry the user's tag key
Matching(p, user) ==
    SelectSeq(hist[p].fetched[1],
        LAMBDA r : /\ IsTimeBased(r)
                   /\ user.affiliatedTag # <<>>
                   /\ InSeq("tag:" \o user.affiliatedTag[1], r.tag))

Pids(records) == [i \in DOMAIN records |-> records[i].pid]

ShownPids(group) == [i \in DOMAIN group.policies |-> group.policies[i].policy_id]

\* C13: grouped listing: every fetched user with a non-null affiliatedTag and
\* at least one matching selected policy is shown as its own group (its uid,
\* its name, its tag key) holding all of its matching policies in order,
\* also when several users match one policy or share a display name.
C13_EveryMatchingUserIsShown ==
    \A p \in Operator :
        (Listed(p) /\ argv[p].by_user)
        => \A i \in DOMAIN hist[p].users[1] :
            LET user == hist[p].users[1][i]
            IN  Matching(p, user) # <<>>
                => \E g \in DOMAIN Groups(p) :
                    /\ Groups(p)[g].uid = user.uid
                    /\ Groups(p)[g].user_name = Get(user.name, "Unknown")
                    /\ Groups(p)[g].tag = "tag:" \o user.affiliatedTag[1]
                    /\ ShownPids(Groups(p)[g]) = Pids(Matching(p, user))

\* C14: grouped listing: every group shown is a fetched user with a non-null
\* affiliatedTag and at least one matching selected policy.
C14_OnlyMatchingUsersAreShown ==
    \A p \in Operator :
        (Listed(p) /\ argv[p].by_user)
        => \A g \in DOMAIN Groups(p) :
            \E i \in DOMAIN hist[p].users[1] :
                LET user == hist[p].users[1][i]
                IN  /\ user.uid = Groups(p)[g].uid
                    /\ user.affiliatedTag # <<>>
                    /\ Matching(p, user) # <<>>

\* seq is sub with elements left out: the order is kept
RECURSIVE IsSubsequence(_, _)
IsSubsequence(sub, seq) ==
    IF sub = <<>> THEN TRUE
    ELSE IF seq = <<>> THEN FALSE
    ELSE IF Head(sub) = Head(seq) THEN IsSubsequence(Tail(sub), Tail(seq))
    ELSE IsSubsequence(sub, Tail(seq))

\* C15: the filter of list keeps exactly the records with type mac or
\* intranet, a duration, a cronTime and a non-empty tag list: its output is a
\* subsequence of the fetched list in the same order, every kept record
\* satisfies the four conditions, every fetched record satisfying them is
\* kept, filtering the output again changes nothing, and the flat listing
\* shows exactly the kept records, in order, with their number.
C15_FilterKeepsTimeBased ==
    \A p \in Operator :
        Listed(p)
        => LET fetched == hist[p].fetched[1]
               kept == time_policies(fetched)
               Wanted(r) == /\ r.type = "mac" \/ r.type = "intranet"
                            /\ Len(r.duration) = 1
                            /\ Len(r.cronTime) = 1
                            /\ Len(r.tag) > 0
           IN  /\ IsSubsequence(kept, fetched)
               /\ \A i \in DOMAIN kept : Wanted(kept[i])
               /\ \A i \in DOMAIN fetched :
                    Wanted(fetched[i]) => InSeq(fetched[i], kept)
               /\ time_policies(kept) = kept
               /\ kept = <<>> => Len(Listing(p)) = 1 /\ Listing(p)[1].line # "Found"
               /\ kept # <<>> => Listing(p)[1].policies = Len(kept)
               /\ ~argv[p].by_user
                  => [i \in DOMAIN Shown(p) |-> Shown(p)[i].policy.policy_id]
                     = Pids(kept)

\* a flat listing of two fetched policies shows the second one only
C15_Witness ==
    \E p \in Operator :
        /\ Listed(p)
        /\ ~argv[p].by_user
        /\ Len(hist[p].fetched[1]) = 2
        /\ hist[p].fetched[1][1].tag = <<>>
        /\ Len(Shown(p)) = 1
        /\ Shown(p)[1].policy.policy_id = hist[p].fetched[1][2].pid

\* C16: an invocation with no command, an unknown command, arguments left
\* out or a minutes argument that is not an integer ends at once with a
\* non-zero exit and a message on the error stream, having made no bridge call
\* and no append to the audit log; an invocation that ran its command with
\* nothing written to the error stream exits zero.
C16_UsageErrorsOnStderr ==
    \A p \in Operator :
        /\ (pc[p] # "idle" /\ argv[p] \in IllFormed)
           => /\ Done(p)
              /\ exit_code[p] # 0
              /\ stderr[p] # <<>>
              /\ hist[p].calls = <<>>
              /\ hist[p].appended = <<>>
              /\ log = hist[p].log0
        /\ (Done(p) /\ argv[p] \in WellFormed /\ stderr[p] = <<>>)
           => exit_code[p] = 0

\* C17: the log command leaves the audit log as it is (content and
\* existence); when the file is missing it prints the informational message
\* and exits zero; when the file exists and some line, at whatever position,
\* is not a JSON object, it exits non-zero; when every line is well-formed it
\* exits zero having printed the header and one line per entry.
C17_LogReadsOnly ==
    /\ [](\A p \in Operator :
            (Done(p) /\ argv[p].command = "log")
            => /\ ~log_exists
                  => /\ exit_code[p] = 0
                     /\ stderr[p] = <<>>
                     /\ stdout[p] = <<"No log file found. No extensions have been granted yet.">>
               /\ (log_exists /\ \E i \in DOMAIN log : "garbage" \in DOMAIN log[i])
                  => exit_code[p] # 0
               /\ (log_exists /\ \A i \in DOMAIN log : "json" \in DOMAIN log[i])
                  => /\ exit_code[p] = 0
                     /\ Len(stdout[p]) = 1 + Len(log))
    /\ [][\A p \in Operator :
            pc[p] = "show_log" => log' = log /\ log_exists' = log_exists]_vars

\* a file of three lines whose last line is not JSON: two lines are printed
\* and the command fails
C17_Witness ==
    \E p \in Operator :
        /\ Done(p)
        /\ argv[p].command = "log"
        /\ log_exists
        /\ Len(log) = 3
        /\ "json" \in DOMAIN log[1]
        /\ "json" \in DOMAIN log[2]
        /\ "garbage" \in DOMAIN log[3]
        /\ exit_code[p] = 1
        /\ Len(stdout[p]) = 3

\* the line of the template of the command that wrote an entry
TemplateLine(writer, timestamp) ==
    IF writer.command = "extend"
    THEN <<timestamp, "Extended policy", writer.policy_id, writer.tag,
           writer.minutes, format_duration(writer.current_duration),
           format_duration(writer.current_duration + writer.minutes * 60)>>
    ELSE IF writer.command = "grant"
    THEN <<timestamp, "Disabled policy", writer.policy_id, writer.tag,
           writer.minutes>>
    ELSE <<timestamp, "Paused policy", writer.policy_id, writer.tag,
           writer.minutes, Get(writer.result[1].expiresAt, "")>>

\* C18: after any sequence of extend, grant and pause invocations, log
\* prints the header and exactly one line per appended entry, in append
\* order; the line of an entry has the template of the command that wrote it
\* (extend: "Extended", grant: "Disabled", pause: "Paused") with that
\* invocation's policy id, the policy's tags, its minutes and the formatted
\* old and new durations or the expiry.
C18_ReplayMatchesWrites ==
    \A p \in Operator :
        (Done(p) /\ argv[p].command = "log" /\ log_exists)
        => /\ exit_code[p] = 0
           /\ Len(log_writers) = Len(log)
           /\ Len(stdout[p]) = 1 + Len(log)
           /\ \A i \in DOMAIN log :
                stdout[p][i + 1] = TemplateLine(log_writers[i], log[i].json.timestamp)

\* an extension and then a pause were logged, and log shows them in that order
C18_Witness ==
    \E p \in Operator :
        /\ Succeeded(p)
        /\ argv[p].command = "log"
        /\ Len(log) = 2
        /\ log_writers[1].command = "extend"
        /\ log_writers[2].command = "pause"
        /\ Len(stdout[p]) = 3
        /\ stdout[p][2][2] = "Extended policy"
        /\ stdout[p][3][2] = "Paused policy"

\* the duration list printed in the schedule line of its one policy
PrintedDuration(p) ==
    IF argv[p].by_user THEN Groups(p)[1].policies[1].schedule
    ELSE Shown(p)[1].policy.schedule

\* C19: format_duration(seconds), for every seconds of 0..MaxSeconds, is
\* "{h}h {m}m" with h = seconds div 3600 and m = (seconds mod 3600) div 60
\* when h > 0 and "{m}m" without hour segment when seconds < 3600; 0 and 59
\* give "0m", 5400 gives "1h 30m".  h and m are taken as the numbers with
\* 3600h + 60m <= seconds < 3600h + 60m + 60 and m < 60.
C19_FormatDuration ==
    \A p \in Operator :
        Listed(p)
        => LET seconds == PyInt(hist[p].fetched[1][1].duration[1])
               printed == PrintedDuration(p)
               before == "Blocks at 22:00 for "
           IN  /\ \E h \in 0..(MaxSeconds \div 3600 + 1), m \in 0..59 :
                    /\ 3600 * h + 60 * m <= seconds
                    /\ seconds < 3600 * h + 60 * m + 60
                    /\ printed = before \o
                          (IF seconds < 3600 THEN ToString(m) \o "m"
                           ELSE ToString(h) \o "h " \o ToString(m) \o "m")
               /\ seconds \in {0, 59} => printed = before \o "0m"
               /\ seconds = 5400 => printed = before \o "1h 30m"

C19_Witness ==
    \E p \in Operator :
        /\ Listed(p)
        /\ ~argv[p].by_user
        /\ hist[p].fetched[1][1].duration = <<PyStr(59)>>
        /\ Shown(p)[1].policy.schedule = "Blocks at 22:00 for 0m"

\* the disabled flag the bridge holds for a policy ("" when it has none)
HeldDisabled(rules, policy_id) ==
    IF FindPolicy(rules, policy_id) = <<>> THEN ""
    ELSE FindPolicy(rules, policy_id)[1].disabled

\* the only step that takes a policy from disabled "1" to "0" is the push of
\* an enable invocation for that policy
OnlyEnableReenables ==
    \A id \in PolicyIds :
        (HeldDisabled(policyRules, id) = "1" /\ HeldDisabled(policyRules', id) = "0")
        => \E p \in Operator : pc[p] = "enable" /\ argv[p].policy_id = id

\* C20: with one operator and no other change at the bridge, once a grant on
\* a policy has succeeded the bridge holds the policy with disabled "1", and
\* it keeps it so through list, log, extend and grant: the only step that
\* takes it back to "0" is the push of an enable invocation for that policy,
\* and that invocation succeeds.
C20_DisabledUntilEnable ==
    /\ [](\A p \in Operator :
            (Succeeded(p) /\ argv[p].command = "grant")
            => HeldDisabled(policyRules, argv[p].policy_id) = "1")
    /\ [][OnlyEnableReenables]_vars
    /\ [][\A p \in Operator :
            (/\ pc[p] = "enable"
             /\ HeldDisabled(policyRules, argv[p].policy_id) = "1"
             /\ HeldDisabled(policyRules', argv[p].policy_id) = "0")
            => exit_code'[p] = 0]_vars

====
